---- MODULE Spec2Model ----
(***************************************************************************)
(* A model of the LINE/Gemini chat bot of src/main.py: the text-event      *)
(* handler (authentication, command dispatch, conversation turn), the      *)
(* Firebase-backed stores it reads and writes, and the asynchronous        *)
(* search job.  Every remote call (database, LINE reply/push, Gemini,      *)
(* job queue) is one atomic step; request handlers run concurrently, so    *)
(* the steps of two handlers interleave.                                   *)
(*                                                                         *)
(* A text is a sequence of words: the words are separated by one space,    *)
(* so `' ' in text` is Len(text) > 1 and text.split(' ', 1) is             *)
(* <<Head(text)>>, Tail(text).                                             *)
(***************************************************************************)
EXTENDS Integers, Sequences, FiniteSets, TLC

\* ------------------------------------------------------------------ bounds
MaxEvents == 2      \* inbound text events handled in one behaviour
MaxMints  == 2      \* auth codes minted in one behaviour (the initial one included)

\* ------------------------------------------------------- program constants
MAX_HISTORY_LENGTH == 20
PRO_MODE_LIMIT     == 5
QUERY_MAX_LEN      == 15
NUM_RESULTS        == 3
TOP_K              == 2

CMD_RESET  == "/reset"
CMD_PRO    == "/pro"
CMD_FLASH  == "/flash"
CMD_SEARCH == "/search"

\* ------------------------------------------------------------------- domain
Users    == {"u1", "u2"}
Handlers == {1, 2}

Words == {"c1", "tokyo", "weather", "AItoha", "meteorologicalforecast",
          "/reset", "/pro", "/FLASH", "/search", "/foo", "reply", "kw"}

\* len(word)
WordLen(w) ==
    CASE w = "c1" -> 2
      [] w = "tokyo" -> 5
      [] w = "weather" -> 7
      [] w = "AItoha" -> 4
      [] w = "meteorologicalforecast" -> 22
      [] w = "/reset" -> 6
      [] w = "/pro" -> 4
      [] w = "/FLASH" -> 6
      [] w = "/search" -> 7
      [] w = "/foo" -> 4
      [] w = "reply" -> 5
      [] w = "kw" -> 2

RECURSIVE TextLen(_)
\* len(text): the words and the single spaces between them
TextLen(t) ==
    IF t = <<>> THEN 0
    ELSE IF Len(t) = 1 THEN WordLen(t[1])
    ELSE WordLen(t[1]) + 1 + TextLen(Tail(t))

\* str.lower() of a word
Lower(w) == IF w = "/FLASH" THEN "/flash" ELSE w

\* word.startswith('/')
StartsWithSlash(w) == w \in {"/reset", "/pro", "/FLASH", "/search", "/foo"}

\* 'toha' in word
HasMarker(w) == w = "AItoha"

\* the texts the platform delivers (event.message.text.strip())
Inbound ==
    { <<"c1">>, <<"tokyo">>,
      <<"/reset">>, <<"/pro">>, <<"/FLASH">>, <<"/foo">>,
      <<"/search">>, <<"/search", "weather">>, <<"/search", "tokyo", "weather">> }

Codes == { <<"c1">> }

\* what the generative model answers (a black box: one fixed text per use)
ReplyText   == <<"reply">>
RefinedText == <<"kw", "weather">>

UserTurn(t)  == [role |-> "user",  text |-> t]
ModelTurn(t) == [role |-> "model", text |-> t]

\* a stored conversation of n turns, as n/2 earlier turns of handle_conversation
PastHistory(n) ==
    [i \in 1..n |-> IF i % 2 = 1 THEN UserTurn(<<"tokyo">>) ELSE ModelTurn(ReplyText)]

\* seq[-n:]
LastN(s, n) ==
    IF Len(s) <= n THEN s ELSE SubSeq(s, Len(s) - n + 1, Len(s))

VARIABLES
    authenticated,  \* /authenticated_users : the users with an entry
    validCodes,     \* /valid_codes         : the codes with an entry
    mode,           \* /user_settings/<u>/mode : "none" (unset), "flash", "pro"
    hist,           \* /conversation_history/<u>
    usage,          \* /pro_usage/<u>/<today>
    req,            \* per request handler: position and locals of handle_text_message
    queue,          \* the RQ queue of run_search_task jobs
    job,            \* the worker: position and locals of run_search_task
    nEvents,        \* history: inbound events received
    minted,         \* history: times each code value was minted
    redeemed,       \* history: times authenticate_user returned True per code value
    granted,        \* history: premium turns granted per user today
    proTurns        \* history: premium-mode turns that reached the quota check

vars == <<authenticated, validCodes, mode, hist, usage, req, queue, job,
          nEvents, minted, redeemed, granted, proTurns>>

db == <<authenticated, validCodes, mode, hist, usage>>

IdleReq ==
    [pc |-> "idle", user |-> "none", text |-> <<>>, model |-> "flash",
     history |-> <<>>, query |-> <<>>, ctx |-> <<>>, refined |-> <<>>,
     replies |-> <<>>, notices |-> 0, failure |-> "none", enqueued |-> FALSE,
     denied |-> FALSE, route |-> "none"]

IdleJob ==
    [pc |-> "idle", user |-> "none", query |-> <<>>, results |-> <<>>, i |-> 0,
     urls |-> <<>>, pushes |-> <<>>, summarised |-> FALSE,
     fetches |-> <<>>, modelCalls |-> 0]

\* the stored states a behaviour starts from: a deployment in which u1 may
\* already be authenticated, with a stored mode, usage and conversation
InitHistories == { <<>>, PastHistory(MAX_HISTORY_LENGTH) }
InitUsages    == { 0, PRO_MODE_LIMIT - 1, PRO_MODE_LIMIT }

Init ==
    /\ validCodes = Codes
    /\ authenticated \in { {}, {"u1"} }
    /\ mode \in [Users -> {"none", "pro"}]
    /\ \A u \in Users : mode[u] = "pro" => u \in authenticated
    /\ usage \in [Users -> InitUsages]
    /\ \A u \in Users : usage[u] > 0 => mode[u] = "pro"
    /\ hist \in [Users -> InitHistories]
    /\ \A u \in Users : hist[u] # <<>> => u \in authenticated
    /\ req = [h \in Handlers |-> IdleReq]
    /\ queue = <<>>
    /\ job = IdleJob
    /\ nEvents = 0
    /\ minted = [c \in Codes |-> 1]
    /\ redeemed = [c \in Codes |-> 0]
    /\ granted = usage
    /\ proTurns = usage

\* ---------------------------------------------------------------- helpers
Finished == {"idle", "done", "crashed"}

\* an exception raised inside the try block of handle_text_message by the
\* call `what`: control goes to the except block (failure: history, the first
\* call of the event that raised)
Raised(r, what) ==
    [r EXCEPT !.pc = "except_reply",
              !.failure = IF @ = "none" THEN what ELSE @]

\* handle_text_message returns: its locals are gone
Returned(r, how) ==
    [r EXCEPT !.pc = how, !.history = <<>>, !.query = <<>>, !.ctx = <<>>,
              !.refined = <<>>]

\* line_bot_api.reply_message on the event's reply token
Replied(r, kind, ok) ==
    [r EXCEPT !.replies = Append(@, [kind |-> kind, ok |-> ok])]

\* get_conversation_history
Load(u) == LastN(hist[u], MAX_HISTORY_LENGTH)

\* check_pro_quota with the comparison off by one
QuotaOkInclusive(u) == usage[u] <= PRO_MODE_LIMIT

\* check_pro_quota
QuotaOk(u) == usage[u] < PRO_MODE_LIMIT

\* a handler whose whole body is one reply: reply, then return
ReplyStep(h, at, kind) ==
    /\ req[h].pc = at
    /\ \E ok \in BOOLEAN :
         req' = [req EXCEPT ![h] =
                    IF ok THEN Returned(Replied(@, kind, TRUE), "done")
                    ELSE Raised(Replied(@, kind, FALSE), "reply")]
    /\ UNCHANGED <<db, queue, job, nEvents, minted, redeemed, granted, proTurns>>

\* -------------------------------------------------- handle_text_message
\* the platform delivers a text event of a user of U with a text of T to the
\* first free request handler
ReceiveUpTo(h, U, T, n) ==
    /\ nEvents < n
    /\ req[h].pc \in Finished
    /\ \A g \in Handlers : g < h => req[g].pc \notin Finished
    /\ \E u \in U, t \in T :
         req' = [req EXCEPT ![h] = [IdleReq EXCEPT !.pc = "is_auth", !.user = u, !.text = t]]
    /\ nEvents' = nEvents + 1
    /\ UNCHANGED <<db, queue, job, minted, redeemed, granted, proTurns>>

ReceiveFrom(h, U, T) == ReceiveUpTo(h, U, T, MaxEvents)

Receive(h) == ReceiveFrom(h, Users, Inbound)

\* handle_text_message testing for a command before the authentication
IsAuthCommandFirst(h) ==
    /\ req[h].pc = "is_auth"
    /\ req' = [req EXCEPT ![h] =
                 IF StartsWithSlash(Head(req[h].text))
                 THEN [@ EXCEPT !.pc = "cmd_load", !.route = "command"]
                 ELSE IF req[h].user \notin authenticated
                      THEN [@ EXCEPT !.pc = "auth_get", !.route = "authentication"]
                      ELSE [@ EXCEPT !.pc = "conv_mode", !.route = "conversation"]]
    /\ UNCHANGED <<db, queue, job, nEvents, minted, redeemed, granted, proTurns>>

IsAuth(h) ==
    /\ req[h].pc = "is_auth"
    /\ req' = [req EXCEPT ![h] =
                 IF req[h].user \notin authenticated
                 THEN [@ EXCEPT !.pc = "auth_get", !.route = "authentication"]
                 ELSE IF StartsWithSlash(Head(req[h].text))
                      THEN [@ EXCEPT !.pc = "cmd_load", !.route = "command"]
                      ELSE [@ EXCEPT !.pc = "conv_mode", !.route = "conversation"]]
    /\ UNCHANGED <<db, queue, job, nEvents, minted, redeemed, granted, proTurns>>

ExceptReply(h) ==
    /\ req[h].pc = "except_reply"
    /\ \E ok \in BOOLEAN :
         req' = [req EXCEPT ![h] =
                    Returned(Replied(@, "error", ok), IF ok THEN "done" ELSE "crashed")]
    /\ UNCHANGED <<db, queue, job, nEvents, minted, redeemed, granted, proTurns>>

\* ---------------------------------- handle_authentication / authenticate_user
\* authenticate_user testing only that some code is valid
AuthGetAnyCode(h) ==
    /\ req[h].pc = "auth_get"
    /\ req' = [req EXCEPT ![h].pc =
                 IF validCodes # {} THEN "auth_set" ELSE "auth_retry"]
    /\ UNCHANGED <<db, queue, job, nEvents, minted, redeemed, granted, proTurns>>

AuthGet(h) ==
    /\ req[h].pc = "auth_get"
    /\ req' = [req EXCEPT ![h].pc =
                 IF req[h].text \in validCodes THEN "auth_set" ELSE "auth_retry"]
    /\ UNCHANGED <<db, queue, job, nEvents, minted, redeemed, granted, proTurns>>

AuthSet(h) ==
    /\ req[h].pc = "auth_set"
    /\ authenticated' = authenticated \cup {req[h].user}
    /\ req' = [req EXCEPT ![h].pc = "auth_del"]
    /\ UNCHANGED <<validCodes, mode, hist, usage, queue, job, nEvents, minted,
                   redeemed, granted, proTurns>>

\* authenticate_user returning True without deleting the code
AuthDelKeepsCode(h) ==
    /\ req[h].pc = "auth_del"
    /\ redeemed' = [redeemed EXCEPT ![req[h].text] = @ + 1]
    /\ req' = [req EXCEPT ![h].pc = "auth_welcome"]
    /\ UNCHANGED <<db, queue, job, nEvents, minted, granted, proTurns>>

AuthDel(h) ==
    /\ req[h].pc = "auth_del"
    /\ validCodes' = validCodes \ {req[h].text}
    /\ redeemed' = [redeemed EXCEPT ![req[h].text] = @ + 1]
    /\ req' = [req EXCEPT ![h].pc = "auth_welcome"]
    /\ UNCHANGED <<authenticated, mode, hist, usage, queue, job, nEvents, minted,
                   granted, proTurns>>

AuthWelcome(h) == ReplyStep(h, "auth_welcome", "welcome")

AuthRetry(h) == ReplyStep(h, "auth_retry", "retry")

\* add_code with the right secret: mints a code value; uuid4()[:8] may repeat
\* an earlier value (minting a value that is still valid changes nothing)
AddCode ==
    /\ \E c \in Codes \ validCodes :
         /\ minted[c] < MaxMints
         /\ validCodes' = validCodes \cup {c}
         /\ minted' = [minted EXCEPT ![c] = @ + 1]
    /\ UNCHANGED <<authenticated, mode, hist, usage, req, queue, job, nEvents,
                   redeemed, granted, proTurns>>

\* ------------------------------------------------------ handle_conversation
ConvMode(h) ==
    /\ req[h].pc = "conv_mode"
    /\ req' = [req EXCEPT ![h].pc =
                 IF mode[req[h].user] = "pro" THEN "conv_check" ELSE "conv_load"]
    /\ UNCHANGED <<db, queue, job, nEvents, minted, redeemed, granted, proTurns>>

ConvCheck(h) ==
    /\ req[h].pc = "conv_check"
    /\ IF QuotaOk(req[h].user)
       THEN /\ req' = [req EXCEPT ![h].pc = "conv_record", ![h].model = "pro"]
            /\ granted' = [granted EXCEPT ![req[h].user] = @ + 1]
       ELSE /\ req' = [req EXCEPT ![h].pc = "conv_notice", ![h].denied = TRUE]
            /\ UNCHANGED granted
    /\ proTurns' = [proTurns EXCEPT ![req[h].user] = @ + 1]
    /\ UNCHANGED <<db, queue, job, nEvents, minted, redeemed>>

\* record_pro_usage: ref.transaction(count + 1)
\* record_pro_usage counting a granted turn twice
ConvRecordTwice(h) ==
    /\ req[h].pc = "conv_record"
    /\ usage' = [usage EXCEPT ![req[h].user] = @ + 2]
    /\ req' = [req EXCEPT ![h].pc = "conv_load"]
    /\ UNCHANGED <<authenticated, validCodes, mode, hist, queue, job, nEvents,
                   minted, redeemed, granted, proTurns>>

ConvRecord(h) ==
    /\ req[h].pc = "conv_record"
    /\ usage' = [usage EXCEPT ![req[h].user] = @ + 1]
    /\ req' = [req EXCEPT ![h].pc = "conv_load"]
    /\ UNCHANGED <<authenticated, validCodes, mode, hist, queue, job, nEvents,
                   minted, redeemed, granted, proTurns>>

\* the push of the limit notice
ConvNotice(h) ==
    /\ req[h].pc = "conv_notice"
    /\ \E ok \in BOOLEAN :
         req' = [req EXCEPT ![h] =
                    IF ok THEN [@ EXCEPT !.notices = @ + 1, !.pc = "conv_load"]
                    ELSE Raised([@ EXCEPT !.notices = @ + 1], "notice")]
    /\ UNCHANGED <<db, queue, job, nEvents, minted, redeemed, granted, proTurns>>

ConvLoad(h) ==
    /\ req[h].pc = "conv_load"
    /\ \E ok \in BOOLEAN :
         req' = [req EXCEPT ![h] =
                    IF ok THEN [@ EXCEPT !.history = Append(Load(req[h].user), UserTurn(req[h].text)),
                                         !.pc = "conv_gen"]
                    ELSE Raised(@, "load")]
    /\ UNCHANGED <<db, queue, job, nEvents, minted, redeemed, granted, proTurns>>

\* handle_conversation saving the history before the model call returns, so
\* that a failed call leaves the user turn stored
ConvGenSavesFirst(h) ==
    /\ req[h].pc = "conv_gen"
    /\ hist' = [hist EXCEPT ![req[h].user] = req[h].history]
    /\ \E ok \in BOOLEAN :
         req' = [req EXCEPT ![h] =
                    IF ok THEN [@ EXCEPT !.history = Append(@, ModelTurn(ReplyText)),
                                         !.pc = "conv_save"]
                    ELSE Raised(@, "gen")]
    /\ UNCHANGED <<authenticated, validCodes, mode, usage, queue, job, nEvents,
                   minted, redeemed, granted, proTurns>>

\* a failed premium model call giving its unit of quota back
ConvGenRefunds(h) ==
    /\ req[h].pc = "conv_gen"
    /\ \E ok \in BOOLEAN :
         /\ req' = [req EXCEPT ![h] =
                      IF ok THEN [@ EXCEPT !.history = Append(@, ModelTurn(ReplyText)),
                                           !.pc = "conv_save"]
                      ELSE Raised(@, "gen")]
         /\ usage' = IF ~ok /\ req[h].model = "pro"
                     THEN [usage EXCEPT ![req[h].user] = @ - 1]
                     ELSE usage
    /\ UNCHANGED <<authenticated, validCodes, mode, hist, queue, job, nEvents,
                   minted, redeemed, granted, proTurns>>

\* active_model.generate_content(history), then the model turn is appended
ConvGen(h) ==
    /\ req[h].pc = "conv_gen"
    /\ \E ok \in BOOLEAN :
         req' = [req EXCEPT ![h] =
                    IF ok THEN [@ EXCEPT !.history = Append(@, ModelTurn(ReplyText)),
                                         !.pc = "conv_save"]
                    ELSE Raised(@, "gen")]
    /\ UNCHANGED <<db, queue, job, nEvents, minted, redeemed, granted, proTurns>>

\* save_conversation_history(user_id, history)
ConvSave(h) ==
    /\ req[h].pc = "conv_save"
    /\ hist' = [hist EXCEPT ![req[h].user] = req[h].history]
    /\ req' = [req EXCEPT ![h].pc = "conv_reply"]
    /\ UNCHANGED <<authenticated, validCodes, mode, usage, queue, job, nEvents,
                   minted, redeemed, granted, proTurns>>

ConvReply(h) == ReplyStep(h, "conv_reply", "answer")

\* ---------------------------------------------------------- handle_command
CmdLoad(h) ==
    /\ req[h].pc = "cmd_load"
    /\ \E ok \in BOOLEAN :
         req' = [req EXCEPT ![h] =
                    IF ok THEN [@ EXCEPT !.history = Append(Load(req[h].user), UserTurn(req[h].text)),
                                         !.pc = "cmd_save"]
                    ELSE Raised(@, "load")]
    /\ UNCHANGED <<db, queue, job, nEvents, minted, redeemed, granted, proTurns>>

\* command_functions.get(parts[0].lower())
Dispatch(command) ==
    CASE command = CMD_RESET  -> "cmd_reset"
      [] command = CMD_PRO    -> "cmd_pro"
      [] command = CMD_FLASH  -> "cmd_flash"
      [] command = CMD_SEARCH -> "cmd_search"
      [] OTHER                -> "unknown_reply"

\* the command text is saved to the history, then the command is dispatched
CmdSave(h) ==
    /\ req[h].pc = "cmd_save"
    /\ hist' = [hist EXCEPT ![req[h].user] = req[h].history]
    /\ req' = [req EXCEPT ![h].pc = Dispatch(Lower(Head(req[h].text))),
                          ![h].query = Tail(req[h].text)]
    /\ UNCHANGED <<authenticated, validCodes, mode, usage, queue, job, nEvents,
                   minted, redeemed, granted, proTurns>>

CmdUnknownReply(h) == ReplyStep(h, "unknown_reply", "unknown")

\* cmd_reset leaving the command text the dispatcher recorded
CmdResetKeepsCommand(h) ==
    /\ req[h].pc = "cmd_reset"
    /\ hist' = [hist EXCEPT ![req[h].user] = << UserTurn(req[h].text) >>]
    /\ req' = [req EXCEPT ![h].pc = "reset_reply"]
    /\ UNCHANGED <<authenticated, validCodes, mode, usage, queue, job, nEvents,
                   minted, redeemed, granted, proTurns>>

\* cmd_reset: reset_conversation_history is ref.delete()
CmdReset(h) ==
    /\ req[h].pc = "cmd_reset"
    /\ hist' = [hist EXCEPT ![req[h].user] = <<>>]
    /\ req' = [req EXCEPT ![h].pc = "reset_reply"]
    /\ UNCHANGED <<authenticated, validCodes, mode, usage, queue, job, nEvents,
                   minted, redeemed, granted, proTurns>>

CmdResetReply(h) == ReplyStep(h, "reset_reply", "reset")

\* set_user_mode switching the mode back when it is already the requested one
SetModeToggles(h, at, m, next) ==
    /\ req[h].pc = at
    /\ mode' = [mode EXCEPT ![req[h].user] = IF @ = m THEN "none" ELSE m]
    /\ req' = [req EXCEPT ![h].pc = next]
    /\ UNCHANGED <<authenticated, validCodes, hist, usage, queue, job, nEvents,
                   minted, redeemed, granted, proTurns>>

\* set_user_mode
SetMode(h, at, m, next) ==
    /\ req[h].pc = at
    /\ mode' = [mode EXCEPT ![req[h].user] = m]
    /\ req' = [req EXCEPT ![h].pc = next]
    /\ UNCHANGED <<authenticated, validCodes, hist, usage, queue, job, nEvents,
                   minted, redeemed, granted, proTurns>>

CmdPro(h) == SetMode(h, "cmd_pro", "pro", "pro_reply")

CmdProReply(h) == ReplyStep(h, "pro_reply", "pro")

CmdFlash(h) == SetMode(h, "cmd_flash", "flash", "flash_reply")

CmdFlashReply(h) == ReplyStep(h, "flash_reply", "flash")

\* -------------------------------------------- cmd_search / refine_search_query
\* refine_search_query returns the query as it is when it is specific enough
IsSpecific(q) ==
    \/ TextLen(q) > QUERY_MAX_LEN
    \/ Len(q) > 1
    \/ \E i \in 1..Len(q) : HasMarker(q[i])

\* the indices of the user turns of history whose text is not the query
ContextTurns(history, q) ==
    { i \in 1..Len(history) : history[i].role = "user" /\ history[i].text # q }

\* the loop over reversed(history): the last such user turn, "" when none
LastUserMessage(history, q) ==
    IF ContextTurns(history, q) = {} THEN <<>>
    ELSE history[CHOOSE i \in ContextTurns(history, q) :
                    \A j \in ContextTurns(history, q) : j <= i].text

CmdSearch(h) ==
    /\ req[h].pc = "cmd_search"
    /\ req' = [req EXCEPT ![h] =
                 IF req[h].query = <<>> THEN [@ EXCEPT !.pc = "usage_reply"]
                 ELSE IF IsSpecific(req[h].query)
                      THEN [@ EXCEPT !.refined = req[h].query, !.pc = "search_ack"]
                      ELSE [@ EXCEPT !.pc = "refine_load"]]
    /\ UNCHANGED <<db, queue, job, nEvents, minted, redeemed, granted, proTurns>>

CmdSearchUsageReply(h) == ReplyStep(h, "usage_reply", "usage")

\* get_conversation_history inside refine_search_query, outside its try block
RefineLoad(h) ==
    /\ req[h].pc = "refine_load"
    /\ \E ok \in BOOLEAN :
         req' = [req EXCEPT ![h] =
                    IF ~ok THEN Raised(@, "refine_load")
                    ELSE IF LastUserMessage(Load(req[h].user), req[h].query) = <<>>
                         THEN [@ EXCEPT !.refined = req[h].query, !.pc = "search_ack"]
                         ELSE [@ EXCEPT !.ctx = LastUserMessage(Load(req[h].user), req[h].query),
                                        !.pc = "refine_gen"]]
    /\ UNCHANGED <<db, queue, job, nEvents, minted, redeemed, granted, proTurns>>

\* models['flash'].generate_content(prompt) inside the try block
RefineGen(h) ==
    /\ req[h].pc = "refine_gen"
    /\ \E ok \in BOOLEAN :
         req' = [req EXCEPT ![h].refined = IF ok THEN RefinedText ELSE req[h].query,
                            ![h].failure = IF ok THEN @ ELSE "refine_gen",
                            ![h].pc = "search_ack"]
    /\ UNCHANGED <<db, queue, job, nEvents, minted, redeemed, granted, proTurns>>

\* the acknowledgment reply
SearchAck(h) ==
    /\ req[h].pc = "search_ack"
    /\ \E ok \in BOOLEAN :
         req' = [req EXCEPT ![h] =
                    IF ok THEN [Replied(@, "ack", TRUE) EXCEPT !.pc = "search_enqueue"]
                    ELSE Raised(Replied(@, "ack", FALSE), "reply")]
    /\ UNCHANGED <<db, queue, job, nEvents, minted, redeemed, granted, proTurns>>

\* run_search_task.queue(user_id, refined_query)
SearchEnqueue(h) ==
    /\ req[h].pc = "search_enqueue"
    /\ \/ /\ queue' = Append(queue, [user |-> req[h].user, query |-> req[h].refined])
          /\ req' = [req EXCEPT ![h] = Returned([@ EXCEPT !.enqueued = TRUE], "done")]
       \/ /\ req' = [req EXCEPT ![h] = Raised(@, "enqueue")]
          /\ UNCHANGED queue
    /\ UNCHANGED <<db, job, nEvents, minted, redeemed, granted, proTurns>>

\* ---------------------------------------------------------- run_search_task
\* the links of the items the search returns ("None": an item without a link)
ResultSets ==
    { rs \in { <<>>, <<"a">>, <<"a", "b">>, <<"None", "b">>, <<"a", "b", "c">> } :
        Len(rs) <= NUM_RESULTS }

Min(a, b) == IF a < b THEN a ELSE b

\* task_line_bot_api.push_message
Pushed(j, kind, ok) ==
    [j EXCEPT !.pushes = Append(@, [kind |-> kind, ok |-> ok, sources |-> j.urls])]

JobStart ==
    /\ job.pc \in {"idle", "done", "failed"}
    /\ queue # <<>>
    /\ job' = [IdleJob EXCEPT !.pc = "search", !.user = Head(queue).user,
                              !.query = Head(queue).query]
    /\ queue' = Tail(queue)
    /\ UNCHANGED <<db, req, nEvents, minted, redeemed, granted, proTurns>>

JobSearch ==
    /\ job.pc = "search"
    /\ \/ job' = [job EXCEPT !.pc = "except_push"]
       \/ \E rs \in ResultSets :
            job' = [job EXCEPT !.results = rs, !.i = 1,
                               !.pc = IF rs = <<>> THEN "push_nothing" ELSE "fetch"]
    /\ UNCHANGED <<db, req, queue, nEvents, minted, redeemed, granted, proTurns>>

\* the job going on to the summary whatever the loop collected
AfterFetchAlwaysSummarise(j) ==
    IF j.i <= Min(Len(j.results), TOP_K) THEN j
    ELSE [j EXCEPT !.pc = "summarise"]

\* where the loop over search_results[:2] goes after one iteration
AfterFetch(j) ==
    IF j.i <= Min(Len(j.results), TOP_K) THEN j
    ELSE [j EXCEPT !.pc = IF j.urls = <<>> THEN "push_unreadable" ELSE "summarise"]

\* the loop citing a page whose fetch failed
JobFetchKeepsFailed ==
    /\ job.pc = "fetch"
    /\ IF job.results[job.i] = "None"
       THEN job' = AfterFetch([job EXCEPT !.i = @ + 1])
       ELSE \E ok \in BOOLEAN :
              job' = AfterFetch([job EXCEPT !.i = @ + 1,
                                           !.fetches = Append(@, [url |-> job.results[job.i],
                                                                  ok |-> ok]),
                                           !.urls = Append(@, job.results[job.i])])
    /\ UNCHANGED <<db, req, queue, nEvents, minted, redeemed, granted, proTurns>>

\* one iteration of the loop over search_results[:2]
JobFetch ==
    /\ job.pc = "fetch"
    /\ IF job.results[job.i] = "None"
       THEN job' = AfterFetch([job EXCEPT !.i = @ + 1])
       ELSE \E ok \in BOOLEAN :
              job' = AfterFetch([job EXCEPT !.i = @ + 1,
                                           !.fetches = Append(@, [url |-> job.results[job.i],
                                                                  ok |-> ok]),
                                           !.urls = IF ok THEN Append(@, job.results[job.i])
                                                    ELSE @])
    /\ UNCHANGED <<db, req, queue, nEvents, minted, redeemed, granted, proTurns>>

JobSummarise ==
    /\ job.pc = "summarise"
    /\ \E ok \in BOOLEAN :
         job' = [job EXCEPT !.summarised = ok, !.modelCalls = @ + 1,
                            !.pc = IF ok THEN "push_result" ELSE "except_push"]
    /\ UNCHANGED <<db, req, queue, nEvents, minted, redeemed, granted, proTurns>>

\* a push inside the try block, followed by return
PushStep(at, kind) ==
    /\ job.pc = at
    /\ \E ok \in BOOLEAN :
         job' = [Pushed(job, kind, ok) EXCEPT !.pc = IF ok THEN "done" ELSE "except_push"]
    /\ UNCHANGED <<db, req, queue, nEvents, minted, redeemed, granted, proTurns>>

JobPushNothing == PushStep("push_nothing", "nothing")

JobPushUnreadable == PushStep("push_unreadable", "unreadable")

JobPushResult == PushStep("push_result", "result")

\* the except block: its push is outside any try
JobExceptPush ==
    /\ job.pc = "except_push"
    /\ \E ok \in BOOLEAN :
         job' = [Pushed(job, "error", ok) EXCEPT !.pc = IF ok THEN "done" ELSE "failed"]
    /\ UNCHANGED <<db, req, queue, nEvents, minted, redeemed, granted, proTurns>>

\* ------------------------------------------------------------ specification
\* the request handlers and the admin endpoint
Next ==
    \/ AddCode
    \/ \E h \in Handlers :
         \/ Receive(h)
         \/ IsAuth(h)
         \/ ExceptReply(h)
         \/ AuthGet(h)
         \/ AuthSet(h)
         \/ AuthDel(h)
         \/ AuthWelcome(h)
         \/ AuthRetry(h)
         \/ ConvMode(h)
         \/ ConvCheck(h)
         \/ ConvRecord(h)
         \/ ConvNotice(h)
         \/ ConvLoad(h)
         \/ ConvGen(h)
         \/ ConvSave(h)
         \/ ConvReply(h)
         \/ CmdLoad(h)
         \/ CmdSave(h)
         \/ CmdUnknownReply(h)
         \/ CmdReset(h)
         \/ CmdResetReply(h)
         \/ CmdPro(h)
         \/ CmdProReply(h)
         \/ CmdFlash(h)
         \/ CmdFlashReply(h)
         \/ CmdSearch(h)
         \/ CmdSearchUsageReply(h)
         \/ RefineLoad(h)
         \/ RefineGen(h)
         \/ SearchAck(h)
         \/ SearchEnqueue(h)

Spec == Init /\ [][Next]_vars

\* the conversation traffic of one authenticated user: conversational
\* messages and the commands that change what a turn reads (mode, history),
\* handled concurrently
TurnUsers   == {"u1"}
TurnInbound == { <<"tokyo">>, <<"/reset">>, <<"/pro">>, <<"/FLASH">> }

InitTurn ==
    /\ validCodes = {}
    /\ authenticated = TurnUsers
    /\ mode \in [Users -> {"none", "pro"}]
    /\ usage \in [Users -> InitUsages]
    /\ hist \in [Users -> InitHistories]
    /\ \A u \in Users \ TurnUsers :
         mode[u] = "none" /\ usage[u] = 0 /\ hist[u] = <<>>
    /\ \A u \in Users : usage[u] > 0 => mode[u] = "pro"
    /\ req = [h \in Handlers |-> IdleReq]
    /\ queue = <<>>
    /\ job = IdleJob
    /\ nEvents = 0
    /\ minted = [c \in Codes |-> 1]
    /\ redeemed = [c \in Codes |-> 1]
    /\ granted = usage
    /\ proTurns = usage

ReceiveTurn(h) == ReceiveFrom(h, TurnUsers, TurnInbound)

NextTurn ==
    \E h \in Handlers :
        \/ ReceiveTurn(h)
        \/ IsAuth(h)
        \/ ExceptReply(h)
        \/ ConvMode(h)
        \/ ConvCheck(h)
        \/ ConvRecord(h)
        \/ ConvNotice(h)
        \/ ConvLoad(h)
        \/ ConvGen(h)
        \/ ConvSave(h)
        \/ ConvReply(h)
        \/ CmdLoad(h)
        \/ CmdSave(h)
        \/ CmdReset(h)
        \/ CmdResetReply(h)
        \/ CmdPro(h)
        \/ CmdProReply(h)
        \/ CmdFlash(h)
        \/ CmdFlashReply(h)

SpecTurn == InitTurn /\ [][NextTurn]_vars

\* the traffic of users who start unauthenticated: a valid code, a wrong
\* code and a command text, with the admin endpoint minting codes
AuthInbound == { <<"c1">>, <<"tokyo">>, <<"/reset">> }

InitAuth ==
    /\ validCodes \in { {}, Codes }
    /\ authenticated = {}
    /\ mode = [u \in Users |-> "none"]
    /\ usage = [u \in Users |-> 0]
    /\ hist = [u \in Users |-> <<>>]
    /\ req = [h \in Handlers |-> IdleReq]
    /\ queue = <<>>
    /\ job = IdleJob
    /\ nEvents = 0
    /\ minted = [c \in Codes |-> IF c \in validCodes THEN 1 ELSE 0]
    /\ redeemed = [c \in Codes |-> 0]
    /\ granted = usage
    /\ proTurns = usage

ReceiveAuth(h) == ReceiveFrom(h, Users, AuthInbound)

NextAuth ==
    \/ AddCode
    \/ \E h \in Handlers :
         \/ ReceiveAuth(h)
         \/ IsAuth(h)
         \/ ExceptReply(h)
         \/ AuthGet(h)
         \/ AuthSet(h)
         \/ AuthDel(h)
         \/ AuthWelcome(h)
         \/ AuthRetry(h)
         \/ ConvMode(h)
         \/ ConvLoad(h)
         \/ ConvGen(h)
         \/ ConvSave(h)
         \/ ConvReply(h)
         \/ CmdLoad(h)
         \/ CmdSave(h)
         \/ CmdReset(h)
         \/ CmdResetReply(h)

SpecAuth == InitAuth /\ [][NextAuth]_vars

\* one authenticated user whose events are handled one at a time: the next
\* event is delivered only when the handler of the previous one has returned
MaxSeqEvents == 7

SeqInbound == { <<"tokyo">>, <<"/reset">>, <<"/pro">> }

InitSeq ==
    /\ validCodes = {}
    /\ authenticated = TurnUsers
    /\ mode \in [Users -> {"none", "pro"}]
    /\ usage = [u \in Users |-> 0]
    /\ hist \in [Users -> InitHistories]
    /\ \A u \in Users \ TurnUsers : mode[u] = "none" /\ hist[u] = <<>>
    /\ req = [h \in Handlers |-> IdleReq]
    /\ queue = <<>>
    /\ job = IdleJob
    /\ nEvents = 0
    /\ minted = [c \in Codes |-> 1]
    /\ redeemed = [c \in Codes |-> 1]
    /\ granted = usage
    /\ proTurns = usage

ReceiveSeq(h) ==
    /\ \A g \in Handlers : req[g].pc \in Finished
    /\ ReceiveUpTo(h, TurnUsers, SeqInbound, MaxSeqEvents)

NextSeq ==
    \E h \in Handlers :
        \/ ReceiveSeq(h)
        \/ IsAuth(h)
        \/ ExceptReply(h)
        \/ ConvMode(h)
        \/ ConvCheck(h)
        \/ ConvRecord(h)
        \/ ConvNotice(h)
        \/ ConvLoad(h)
        \/ ConvGen(h)
        \/ ConvSave(h)
        \/ ConvReply(h)
        \/ CmdLoad(h)
        \/ CmdSave(h)
        \/ CmdReset(h)
        \/ CmdResetReply(h)
        \/ CmdPro(h)
        \/ CmdProReply(h)

SpecSeq == InitSeq /\ [][NextSeq]_vars

\* the worker alone, fed from a queue of jobs the handlers enqueued
MaxJobs == 2
JobInputs == [user : Users, query : { <<"weather">>, RefinedText }]

InitJob ==
    /\ validCodes = Codes
    /\ authenticated = Users
    /\ mode = [u \in Users |-> "none"]
    /\ usage = [u \in Users |-> 0]
    /\ hist = [u \in Users |-> <<>>]
    /\ req = [h \in Handlers |-> IdleReq]
    /\ \E n \in 1..MaxJobs : queue \in [1..n -> JobInputs]
    /\ job = IdleJob
    /\ nEvents = 0
    /\ minted = [c \in Codes |-> 1]
    /\ redeemed = [c \in Codes |-> 0]
    /\ granted = usage
    /\ proTurns = usage

NextJob ==
    \/ JobStart
    \/ JobSearch
    \/ JobFetch
    \/ JobSummarise
    \/ JobPushNothing
    \/ JobPushUnreadable
    \/ JobPushResult
    \/ JobExceptPush

SpecJob == InitJob /\ [][NextJob]_vars

TypeOK ==
    /\ authenticated \subseteq Users
    /\ validCodes \subseteq Codes
    /\ \A u \in Users : mode[u] \in {"none", "flash", "pro"} /\ usage[u] \in Nat

\* ------------------------------------------------------------------ claims
\* the reply operations of kind k performed on the event's reply token
RepliesOf(r, k) == { i \in 1..Len(r.replies) : r.replies[i].kind = k }

\* C1: under concurrent premium turns of one user on one day, neither the
\* number of turns granted the premium model nor the stored usage counter
\* ever exceeds PRO_MODE_LIMIT.
C1_QuotaNeverExceeded ==
    \A u \in Users : usage[u] <= PRO_MODE_LIMIT /\ granted[u] <= PRO_MODE_LIMIT

\* C2: every minted auth code is redeemed successfully at most once, also
\* when two requests submit it concurrently.
C2_OneRedemptionPerCode ==
    \A c \in Codes : redeemed[c] <= minted[c]

\* C3: the history stored for a user never holds more than
\* MAX_HISTORY_LENGTH turns.
C3_StoredHistoryBounded ==
    \A u \in Users : Len(hist[u]) <= MAX_HISTORY_LENGTH

\* C4: an execution of run_search_task that has ended has issued exactly
\* one push notification.
C4_ExactlyOnePush ==
    job.pc \in {"done", "failed"} => Len(job.pushes) = 1

\* C5: at most one reply operation is performed on the reply token of an
\* inbound text event.
C5_AtMostOneReply ==
    \A h \in Handlers : Len(req[h].replies) <= 1

\* C6: a conversational turn is all-or-nothing on the stored history.  The
\* step on which the model call fails and every later step of that event
\* leave every stored history as it is, and the except block replies with the
\* fixed error message as the event's only reply; the save of a turn whose
\* model call succeeded stores the loaded history followed by the user turn
\* and then the model turn.
TurnStep(h) ==
    LET r == req[h]
        s == req'[h]
    IN  /\ (s.route = "conversation" /\ s.failure = "gen") => hist' = hist
        /\ (r.route = "conversation" /\ r.failure = "gen" /\ r.pc = "except_reply")
              => /\ Len(s.replies) = 1
                 /\ s.replies[1].kind = "error"
        /\ (r.pc = "conv_save")
              => /\ Len(r.history) >= 2
                 /\ hist'[r.user] = r.history
                 /\ r.history[Len(r.history) - 1] = UserTurn(r.text)
                 /\ r.history[Len(r.history)] = ModelTurn(ReplyText)
                 /\ \A u \in Users \ {r.user} : hist'[u] = hist[u]

C6_TurnAllOrNothing ==
    [][\A h \in Handlers : req'[h] # req[h] => TurnStep(h)]_vars

\* a turn whose model call failed has ended with the error reply, and a
\* turn whose model call succeeded has ended with its two turns stored
C6_Witness ==
    \E h, g \in Handlers :
        /\ req[h].pc = "done" /\ req[h].route = "conversation"
        /\ req[h].failure = "gen"
        /\ req[h].replies = << [kind |-> "error", ok |-> TRUE] >>
        /\ req[g].pc = "done" /\ req[g].route = "conversation"
        /\ req[g].failure = "none"
        /\ req[g].user = req[h].user
        /\ Len(hist[req[g].user]) >= 2
        /\ hist[req[g].user][Len(hist[req[g].user])] = ModelTurn(ReplyText)

\* the text of the last user turn of a history, <<>> when it has none
LastUserText(history) == LastUserMessage(history, <<>>)

\* the history handle_command loaded, before it appended the command text
PriorHistory(r) == SubSeq(r.history, 1, Len(r.history) - 1)

\* C7: when the history held earlier user turns, the context handed to the
\* model for query refinement is the most recent of them, never the /search
\* message itself.
C7_ContextIsPriorTurn ==
    \A h \in Handlers :
        (req[h].pc = "refine_gen" /\ LastUserText(PriorHistory(req[h])) # <<>>)
          => /\ req[h].ctx # req[h].text
             /\ req[h].ctx = LastUserText(PriorHistory(req[h]))

\* C8: a /search event that has ended with its acknowledgment delivered has
\* put its job on the queue.
C8_AckedSearchHasJob ==
    \A h \in Handlers :
        ( /\ req[h].pc \in {"done", "crashed"}
          /\ \E i \in RepliesOf(req[h], "ack") : req[h].replies[i].ok )
          => req[h].enqueued

\* C9: a conversational turn of a premium-mode user whose usage equals the
\* limit is refused the premium model: the quota check sends it to the limit
\* notice, the notice is pushed once, every step of the turn leaves the usage
\* counters and the stored modes as they are, and the answer comes from the
\* fast model.
DeniedStep(h) ==
    LET r == req[h]
        s == req'[h]
    IN  /\ (r.pc = "conv_check" /\ usage[r.user] = PRO_MODE_LIMIT)
              => /\ s.pc = "conv_notice" /\ s.denied /\ s.model = "flash"
                 /\ usage' = usage /\ mode' = mode /\ granted' = granted
        /\ (r.denied /\ r.pc = "conv_notice") => s.notices = 1
        /\ (r.denied /\ s.denied)
              => /\ usage' = usage /\ mode' = mode
                 /\ s.model = "flash"
                 /\ r.pc # "conv_notice" => s.notices = r.notices
        /\ (r.denied /\ r.pc = "conv_reply" /\ s.pc = "done")
              => s.replies = << [kind |-> "answer", ok |-> TRUE] >>

C9_LimitReachedFallsBack ==
    [][\A h \in Handlers : req'[h] # req[h] => DeniedStep(h)]_vars

\* a premium-mode turn at the limit has been answered after one notice
C9_Witness ==
    \E h \in Handlers :
        /\ req[h].pc = "done" /\ req[h].denied
        /\ req[h].notices = 1 /\ req[h].model = "flash"
        /\ req[h].replies = << [kind |-> "answer", ok |-> TRUE] >>
        /\ mode[req[h].user] = "pro"
        /\ usage[req[h].user] = PRO_MODE_LIMIT

\* C10: after a failure of the refinement step (the history load or the
\* model call) cmd_search goes on with the raw query: the event is about to
\* acknowledge the raw query, or has issued the acknowledgment.
C10_RefinementNeverFatal ==
    \A h \in Handlers :
        req[h].failure \in {"refine_load", "refine_gen"}
          => \/ req[h].pc = "search_ack" /\ req[h].refined = req[h].query
             \/ RepliesOf(req[h], "ack") # {}


\* the positions of handle_authentication and of the except block
AuthPositions ==
    {"auth_get", "auth_set", "auth_del", "auth_welcome", "auth_retry",
     "except_reply", "done", "crashed"}

\* C11: an event of a user who is unauthenticated when handle_text_message
\* tests it goes to the redemption only: it is never dispatched as a command
\* or a conversation, its steps leave every history, mode, usage counter and
\* the job queue as they are, and its only replies are the welcome, the retry
\* prompt or the error message; and no step removes a user from the
\* authenticated users.
GateStep(h) ==
    LET r == req[h]
        s == req'[h]
    IN  /\ (r.pc = "is_auth" /\ r.user \notin authenticated)
              => s.route = "authentication" /\ s.pc = "auth_get"
        /\ (s.route = "authentication")
              => /\ s.pc \in AuthPositions
                 /\ hist' = hist /\ mode' = mode /\ usage' = usage
                 /\ queue' = queue /\ granted' = granted
                 /\ s.model = "flash" /\ s.history = <<>> /\ ~s.enqueued
                 /\ \A i \in 1..Len(s.replies) :
                      s.replies[i].kind \in {"welcome", "retry", "error"}
        /\ (s.route \in {"command", "conversation"}) => s.user \in authenticated'

C11_UnauthenticatedOnlyRedeems ==
    [][ /\ authenticated \subseteq authenticated'
        /\ \A h \in Handlers : req'[h] # req[h] => GateStep(h) ]_vars

\* an unauthenticated user's command text has been answered with the retry
\* prompt while another user was authenticated by the code
C11_Witness ==
    \E h, g \in Handlers :
        /\ req[h].pc = "done" /\ req[h].route = "authentication"
        /\ req[h].text = <<"/reset">>
        /\ req[h].replies = << [kind |-> "retry", ok |-> TRUE] >>
        /\ req[h].user \notin authenticated
        /\ req[g].pc = "done" /\ req[g].route = "authentication"
        /\ req[g].user \in authenticated

\* C12: a redemption with a code that is not valid when authenticate_user
\* reads the codes returns False: the event goes to the retry prompt, and
\* neither that read nor the prompt changes any stored state.
FailedRedeemStep(h) ==
    LET r == req[h]
        s == req'[h]
    IN  /\ (r.pc = "auth_get" /\ r.text \notin validCodes)
              => /\ s.pc = "auth_retry"
                 /\ validCodes' = validCodes /\ authenticated' = authenticated
                 /\ mode' = mode /\ hist' = hist /\ usage' = usage
                 /\ redeemed' = redeemed
        /\ (r.pc = "auth_retry")
              => /\ validCodes' = validCodes /\ authenticated' = authenticated
                 /\ mode' = mode /\ hist' = hist /\ usage' = usage
                 /\ redeemed' = redeemed
                 /\ s.replies = << [kind |-> "retry", ok |-> s.pc = "done"] >>

C12_FailedRedeemChangesNothing ==
    [][\A h \in Handlers : req'[h] # req[h] => FailedRedeemStep(h)]_vars

\* an already-used code has been refused with the retry prompt
C12_Witness ==
    \E h \in Handlers :
        /\ req[h].pc = "done" /\ req[h].text \in Codes
        /\ req[h].replies = << [kind |-> "retry", ok |-> TRUE] >>
        /\ redeemed[req[h].text] = 1
        /\ req[h].user \notin authenticated

\* C13: when authenticate_user returns True the user is authenticated and
\* the code is no longer valid; a code value becomes valid again only by a
\* mint of add_code; and an attempt that reads the codes while the value is
\* not valid fails.
RedeemStep(h) ==
    LET r == req[h]
        s == req'[h]
    IN  /\ (r.pc = "auth_del")
              => /\ r.user \in authenticated'
                 /\ r.text \notin validCodes'
                 /\ s.pc = "auth_welcome"
        /\ (r.pc = "auth_get" /\ r.text \notin validCodes) => s.pc = "auth_retry"

C13_RedeemedCodeStaysInvalid ==
    [][ /\ \A c \in Codes :
             (c \notin validCodes /\ c \in validCodes') => minted'[c] = minted[c] + 1
        /\ \A h \in Handlers : req'[h] # req[h] => RedeemStep(h) ]_vars

\* after a successful redemption a later attempt with the same code value
\* has failed
C13_Witness ==
    \E h, g \in Handlers :
        /\ req[h].pc = "done" /\ req[h].text \in Codes
        /\ req[h].replies = << [kind |-> "welcome", ok |-> TRUE] >>
        /\ req[h].user \in authenticated
        /\ req[g].pc = "done" /\ req[g].text = req[h].text
        /\ req[g].replies = << [kind |-> "retry", ok |-> TRUE] >>
        /\ req[g].user \notin authenticated


\* the handlers of a user's turns that were granted the premium model and
\* have not yet recorded the usage
Recording(u) == {h \in Handlers : req[h].pc = "conv_record" /\ req[h].user = u}

\* C14: with the turns of one user handled one at a time, of the premium-mode
\* turns of a day exactly the first PRO_MODE_LIMIT are granted the premium
\* model, the usage counter is the number of granted turns once each has
\* recorded its unit, and a refused turn is not counted.
C14_FirstLimitTurnsGranted ==
    \A u \in Users :
        /\ granted[u] = Min(proTurns[u], PRO_MODE_LIMIT)
        /\ usage[u] + Cardinality(Recording(u)) = granted[u]
        /\ \A h \in Handlers :
             (req[h].user = u /\ req[h].denied)
                => req[h].model = "flash" /\ proTurns[u] > PRO_MODE_LIMIT

\* a sixth premium-mode turn has been refused after five were granted
C14_Witness ==
    \E h \in Handlers :
        /\ req[h].pc = "done" /\ req[h].denied
        /\ proTurns[req[h].user] = PRO_MODE_LIMIT + 1
        /\ granted[req[h].user] = PRO_MODE_LIMIT
        /\ usage[req[h].user] = PRO_MODE_LIMIT


\* C18: once cmd_reset has run for a /reset command, and until the user's
\* next event is handled, get_conversation_history yields the empty
\* sequence for that user, whatever was stored before and although
\* handle_command saved the command text just before dispatching.
C18_ResetThenLoadIsEmpty ==
    \A h \in Handlers :
        (req[h].pc = "reset_reply" \/ RepliesOf(req[h], "reset") # {})
            => Load(req[h].user) = <<>> /\ hist[req[h].user] = <<>>

\* cmd_reset has run on a full stored history to which the command text had
\* been appended
C18_Witness ==
    \E h \in Handlers :
        /\ req[h].pc = "reset_reply"
        /\ Len(req[h].history) = MAX_HISTORY_LENGTH + 1
        /\ req[h].history[MAX_HISTORY_LENGTH + 1] = UserTurn(<<"/reset">>)
        /\ hist[req[h].user] = <<>>


\* the URLs of the pages a job fetched and extracted successfully, in order
FetchedOk(e) == e.ok

UrlsOf(f) == [k \in 1..Len(f) |-> f[k].url]

OkUrls(j) == UrlsOf(SelectSeq(j.fetches, FetchedOk))

\* the linked results among the top TOP_K of a job
TopLinks(j) ==
    { k \in 1..Min(Len(j.results), TOP_K) : j.results[k] # "None" }

\* C15: a page of the top 2 whose fetch or extraction fails is dropped and
\* nothing else: the loop still tries every linked result of the top 2, the
\* summary runs whenever at least one page succeeded, and the sources of the
\* result notification are exactly the URLs that succeeded, in result order.
C15_FailedPageOnlyDropped ==
    /\ job.urls = OkUrls(job)
    /\ job.pc \in {"summarise", "push_result", "push_unreadable"}
          => Len(job.fetches) = Cardinality(TopLinks(job))
    /\ job.pc = "push_unreadable" => OkUrls(job) = <<>>
    /\ job.pc = "summarise" => OkUrls(job) # <<>>
    /\ \A k \in 1..Len(job.pushes) :
          job.pushes[k].kind = "result"
             => /\ job.pushes[k].sources = OkUrls(job)
                /\ job.pushes[k].sources # <<>>
                /\ job.summarised
                /\ \A n \in 1..Len(job.fetches) :
                     ~job.fetches[n].ok
                        => \A m \in 1..Len(job.pushes[k].sources) :
                              job.pushes[k].sources[m] # job.fetches[n].url

\* the first page failed, the second succeeded, and the result was pushed
\* citing the second page only
C15_Witness ==
    /\ job.pc = "done"
    /\ job.fetches = << [url |-> "a", ok |-> FALSE], [url |-> "b", ok |-> TRUE] >>
    /\ job.pushes = << [kind |-> "result", ok |-> TRUE, sources |-> <<"b">>] >>

\* C16: the summarization model is called only on a non-empty evidence set:
\* with no search results the job goes to the "nothing found" push without a
\* fetch or a model call, and with every page failed it goes to the "could
\* not read" push without a model call.
C16_ModelOnlyOnEvidence ==
    /\ job.modelCalls <= 1
    /\ (job.modelCalls > 0 \/ job.pc = "summarise") => job.urls # <<>>
    /\ job.pc = "fetch" => job.results # <<>>
    /\ job.pc = "push_nothing"
          => job.results = <<>> /\ job.fetches = <<>> /\ job.modelCalls = 0
    /\ job.pc = "push_unreadable" => job.urls = <<>> /\ job.modelCalls = 0
    /\ \A k \in 1..Len(job.pushes) :
          /\ job.pushes[k].kind = "nothing"
                => job.results = <<>> /\ job.fetches = <<>> /\ job.modelCalls = 0
          /\ job.pushes[k].kind = "unreadable"
                => /\ job.modelCalls = 0
                   /\ job.results # <<>>
                   /\ \A n \in 1..Len(job.fetches) : ~job.fetches[n].ok

\* both pages failed and the "could not read" notification was pushed
\* without a model call
C16_Witness ==
    /\ job.pc = "done"
    /\ Len(job.fetches) = TOP_K
    /\ \A n \in 1..Len(job.fetches) : ~job.fetches[n].ok
    /\ job.pushes = << [kind |-> "unreadable", ok |-> TRUE, sources |-> <<>>] >>
    /\ job.modelCalls = 0


\* an event that handle_command dispatches to cmd_pro or cmd_flash
IsModeCommand(r) ==
    /\ r.route = "command"
    /\ Lower(Head(r.text)) \in {CMD_PRO, CMD_FLASH}

ModeOf(r) == IF Lower(Head(r.text)) = CMD_PRO THEN "pro" ELSE "flash"

\* C17 as stated: no step of a mode command changes the stored histories,
\* the usage counters or the authenticated users.
C17_ModeCommandChangesOnlyMode ==
    [][\A h \in Handlers :
          (req'[h] # req[h] /\ IsModeCommand(req[h]))
             => hist' = hist /\ usage' = usage /\ authenticated' = authenticated]_vars

\* C17 amended: a mode command stores the loaded history with the command
\* text appended as one user turn, then sets the user's stored mode to the
\* requested one whatever it was before (so a repeated command leaves the
\* mode it left the first time); no step of it changes a usage counter, the
\* authenticated users or anything of another user.
ModeCommandStep(h) ==
    LET r == req[h]
        s == req'[h]
        u == r.user
    IN  /\ usage' = usage /\ authenticated' = authenticated
        /\ validCodes' = validCodes /\ queue' = queue
        /\ \A v \in Users \ {u} : hist'[v] = hist[v] /\ mode'[v] = mode[v]
        /\ IF r.pc = "cmd_save"
           THEN /\ hist'[u] = r.history
                /\ Len(r.history) \in 1..(MAX_HISTORY_LENGTH + 1)
                /\ r.history[Len(r.history)] = UserTurn(r.text)
                /\ mode' = mode
           ELSE IF r.pc \in {"cmd_pro", "cmd_flash"}
           THEN /\ mode'[u] = ModeOf(r)
                /\ hist' = hist
           ELSE hist' = hist /\ mode' = mode
        /\ \A i \in 1..Len(s.replies) : s.replies[i].kind \in {ModeOf(r), "error"}

C17_ModeCommandSavesTextAndSetsMode ==
    [][\A h \in Handlers :
          (req'[h] # req[h] /\ IsModeCommand(req[h])) => ModeCommandStep(h)]_vars

\* the same mode command has been handled twice: the mode is the requested
\* one, the usage is what it was, and the command text is in the history
C17_Witness ==
    \E h, g \in Handlers :
        /\ h # g
        /\ req[h].pc = "done" /\ req[h].text = <<"/pro">>
        /\ req[h].replies = << [kind |-> "pro", ok |-> TRUE] >>
        /\ req[g].pc = "done" /\ req[g].text = <<"/pro">>
        /\ req[g].replies = << [kind |-> "pro", ok |-> TRUE] >>
        /\ req[g].user = req[h].user
        /\ mode[req[h].user] = "pro"
        /\ usage[req[h].user] = PRO_MODE_LIMIT - 1
        /\ hist[req[h].user] # <<>>
        /\ hist[req[h].user][Len(hist[req[h].user])] = UserTurn(<<"/pro">>)


\* C20: a premium turn records its unit of usage before the model is
\* invoked: record_pro_usage adds one while nothing of the turn has been
\* generated, when the premium model is invoked the unit is in the counter,
\* a failed call leaves the counter and the histories as they are through the
\* rest of the event, and no step decrements a counter.
PremiumStep(h) ==
    LET r == req[h]
        s == req'[h]
        u == r.user
    IN  /\ (r.pc = "conv_record")
              => /\ r.model = "pro" /\ r.failure = "none" /\ r.replies = <<>>
                 /\ usage'[u] = usage[u] + 1
                 /\ s.pc = "conv_load"
        /\ (r.pc = "conv_gen" /\ r.model = "pro")
              => /\ h \notin Recording(u)
                 /\ usage[u] + Cardinality(Recording(u)) = granted[u]
                 /\ usage[u] >= 1
                 /\ usage' = usage
        /\ (r.route = "conversation" /\ s.failure = "gen")
              => usage' = usage /\ hist' = hist

C20_PremiumUnitSpentBeforeModelCall ==
    [][ /\ \A u \in Users : usage'[u] >= usage[u]
        /\ \A h \in Handlers : req'[h] # req[h] => PremiumStep(h) ]_vars

\* a premium turn on an empty history whose model call failed: one unit is
\* used and nothing is stored
C20_Witness ==
    \E h \in Handlers :
        /\ req[h].pc = "done" /\ req[h].route = "conversation"
        /\ req[h].model = "pro" /\ req[h].failure = "gen"
        /\ req[h].replies = << [kind |-> "error", ok |-> TRUE] >>
        /\ usage[req[h].user] = 1
        /\ hist[req[h].user] = <<>>

\* C19: no exception escapes the text-event handler or the search job:
\* neither ever ends by raising.
C19_NoExceptionEscapes ==
    /\ \A h \in Handlers : req[h].pc # "crashed"
    /\ job.pc # "failed"

====
